---- MODULE Spec2Model ----
(***************************************************************************)
(* Hierarchy tab of space_editor (crates/editor_ui/src/hierarchy.rs).      *)
(*                                                                         *)
(* The world is a Bevy ECS world: entities carry the hierarchy components  *)
(* Parent / Children and the markers PrefabMarker, Selected, ClonedEntity. *)
(* Systems read the world through queries and write through Commands,      *)
(* which are deferred: a system only queues them (entity ids are reserved  *)
(* at once), and the queue is applied when the system has finished.        *)
(*                                                                         *)
(* One tick is: show_hierarchy (one widget interaction at most), its       *)
(* command queue applied, clone_enitites (one work-stack pop per step),    *)
(* its command queue applied, detect_cloned_entities, and the undo systems *)
(* taking the tick's NewChange events.  clone_enitites and                 *)
(* detect_cloned_entities do nothing in a tick without a CloneEvent, so    *)
(* such a tick goes from the first flush straight to its end.              *)
(***************************************************************************)
EXTENDS Integers, Sequences, FiniteSets, TLC

\* ---- bounds ------------------------------------------------------------
MaxEntities == 8
MaxTicks == 3
MaxTreeTicks == 2
MaxEvents == 2
MaxExtTicks == 2

NoEntity == 0
Ids == 1..MaxEntities

VARIABLES
    exists,      \* entities alive in the world
    parent,      \* Parent component: entity -> parent, NoEntity when absent
    children,    \* Children component: entity -> ordered child list
    prefab,      \* entities with PrefabMarker (the editable ones)
    selected,    \* entities with Selected
    cloned,      \* entities with a freshly added ClonedEntity marker
    reserved,    \* ids handed out by spawn_empty, not yet flushed
    nextId,      \* next unused entity id
    show_editor_entities, \* HierarchyTabState
    commands,    \* deferred command queue of the running system
    changes,     \* NewChange events written during the current tick
    events,      \* unread CloneEvent ids
    queue,       \* clone_enitites: work stack of <<src, dst>>
    map,         \* clone_enitites: src -> dst of the running clone
    pc,          \* which system runs next
    ticksLeft,   \* ticks the run may still start
    lastOp,      \* the widget interaction of the current tick
    tickStartId, \* nextId when the current tick started
    destroyed,   \* entities despawned by the current tick's UI commands
    pruned,      \* the selected ones among them
    selectedBefore, \* the selection the current tick's tab pass saw
    clones       \* clone operations begun during the current tick

vars == <<exists, parent, children, prefab, selected, cloned, reserved,
          nextId, show_editor_entities, commands, changes, events, queue,
          map, pc, ticksLeft, lastOp, tickStartId, destroyed, pruned,
          selectedBefore, clones>>

\* ---- helpers -----------------------------------------------------------
Range(s) == {s[i] : i \in DOMAIN s}

Without(s, x) == SelectSeq(s, LAMBDA y : y # x)

RECURSIVE SortedSeq(_)
SortedSeq(S) ==
    IF S = {} THEN <<>>
    ELSE LET m == CHOOSE x \in S : \A y \in S : x <= y
         IN <<m>> \o SortedSeq(S \ {m})

RECURSIVE Perms(_)
Perms(S) ==
    IF S = {} THEN {<<>>}
    ELSE UNION {{<<x>> \o p : p \in Perms(S \ {x})} : x \in S}

NoMap == [x \in {} |-> NoEntity]

\* entities reachable from the frontier through child lists
RECURSIVE Reach(_, _, _)
Reach(ch, frontier, seen) ==
    IF frontier = {} THEN seen
    ELSE LET nxt == UNION {Range(ch[x]) : x \in frontier} \ seen
         IN Reach(ch, nxt, seen \cup nxt)

Subtree(ch, r) == Reach(ch, {r}, {r})

\* proper ancestors of e along Parent components
RECURSIVE Up(_, _, _)
Up(par, e, seen) ==
    IF par[e] = NoEntity \/ par[e] \in seen THEN seen
    ELSE Up(par, par[e], seen \cup {par[e]})

Ancestors(par, e) == Up(par, e, {})

\* ---- the world and its commands ---------------------------------------
World == [exists |-> exists, parent |-> parent, children |-> children,
          prefab |-> prefab, selected |-> selected, cloned |-> cloned]

InsertPrefab(e) == [op |-> "InsertPrefab", a |-> e, b |-> NoEntity]
InsertSelected(e) == [op |-> "InsertSelected", a |-> e, b |-> NoEntity]
RemoveSelected(e) == [op |-> "RemoveSelected", a |-> e, b |-> NoEntity]
InsertCloned(e) == [op |-> "InsertCloned", a |-> e, b |-> NoEntity]
AddChildCmd(p, c) == [op |-> "AddChild", a |-> p, b |-> c]
RemoveParentCmd(e) == [op |-> "RemoveParent", a |-> e, b |-> NoEntity]
DespawnRecursive(e) == [op |-> "DespawnRecursive", a |-> e, b |-> NoEntity]

AddedEntity(e) == [kind |-> "EntityAdded", entity |-> e]
RemovedEntity(e) == [kind |-> "EntityRemoved", entity |-> e]

\* BuildChildren::add_child: the child leaves its previous parent and is
\* pushed at the end of the new parent's list; no ancestor walk is made.
add_child(w, p, c) ==
    IF p \notin w.exists \/ c \notin w.exists \/ p = c THEN w
    ELSE LET old == w.parent[c]
             ch1 == IF old # NoEntity /\ old # p
                    THEN [w.children EXCEPT ![old] = Without(@, c)]
                    ELSE w.children
         IN [w EXCEPT !.parent = [@ EXCEPT ![c] = p],
                      !.children = [ch1 EXCEPT ![p] = Append(Without(@, c), c)]]

\* BuildChildren::remove_parent
remove_parent(w, e) ==
    IF e \notin w.exists \/ w.parent[e] = NoEntity THEN w
    ELSE [w EXCEPT !.parent = [@ EXCEPT ![e] = NoEntity],
                   !.children = [@ EXCEPT ![w.parent[e]] = Without(@, e)]]

\* entities a despawn_recursive of e takes out of the world
Doomed(w, e) == IF e \in w.exists THEN Subtree(w.children, e) ELSE {}

\* a despawn that leaves the Selected markers of the subtree behind
despawn_recursive_keep_selected(w, e) ==
    IF e \notin w.exists THEN w
    ELSE LET gone == Doomed(w, e)
         IN [exists |-> w.exists \ gone,
             parent |-> [x \in Ids |-> IF x \in gone THEN NoEntity
                                       ELSE w.parent[x]],
             children |-> [x \in Ids |-> IF x \in gone THEN <<>>
                                         ELSE Without(w.children[x], e)],
             prefab |-> w.prefab \ gone,
             selected |-> w.selected,
             cloned |-> w.cloned \ gone]

\* DespawnRecursiveExt::despawn_recursive: e is unlinked from its parent,
\* then e and everything below it is despawned with all its components.
despawn_recursive(w, e) ==
    IF e \notin w.exists THEN w
    ELSE LET gone == Doomed(w, e)
             p == w.parent[e]
             ch1 == IF p # NoEntity
                    THEN [w.children EXCEPT ![p] = Without(@, e)]
                    ELSE w.children
         IN [exists |-> w.exists \ gone,
             parent |-> [x \in Ids |-> IF x \in gone THEN NoEntity
                                       ELSE w.parent[x]],
             children |-> [x \in Ids |-> IF x \in gone THEN <<>> ELSE ch1[x]],
             prefab |-> w.prefab \ gone,
             selected |-> w.selected \ gone,
             cloned |-> w.cloned \ gone]

ApplyCommand(w, c) ==
    CASE c.op = "InsertPrefab" ->
           IF c.a \in w.exists THEN [w EXCEPT !.prefab = @ \cup {c.a}] ELSE w
      [] c.op = "InsertSelected" ->
           IF c.a \in w.exists THEN [w EXCEPT !.selected = @ \cup {c.a}] ELSE w
      [] c.op = "RemoveSelected" -> [w EXCEPT !.selected = @ \ {c.a}]
      [] c.op = "InsertCloned" ->
           IF c.a \in w.exists THEN [w EXCEPT !.cloned = @ \cup {c.a}] ELSE w
      [] c.op = "AddChild" -> add_child(w, c.a, c.b)
      [] c.op = "RemoveParent" -> remove_parent(w, c.a)
      [] c.op = "DespawnRecursive" -> despawn_recursive(w, c.a)

RECURSIVE ApplyAll(_, _)
ApplyAll(w, cs) ==
    IF cs = <<>> THEN w ELSE ApplyAll(ApplyCommand(w, Head(cs)), Tail(cs))

RECURSIVE DoomedAll(_, _)
DoomedAll(w, cs) ==
    IF cs = <<>> THEN {}
    ELSE (IF Head(cs).op = "DespawnRecursive" THEN Doomed(w, Head(cs).a) ELSE {})
         \cup DoomedAll(ApplyCommand(w, Head(cs)), Tail(cs))

\* CommandQueue::apply: reserved entities come to life, then the commands
\* run in the order they were queued.
Flushed == ApplyAll([World EXCEPT !.exists = @ \cup reserved], commands)

SetWorld(w) ==
    /\ exists' = w.exists
    /\ parent' = w.parent
    /\ children' = w.children
    /\ prefab' = w.prefab
    /\ selected' = w.selected
    /\ cloned' = w.cloned

\* ---- what the hierarchy tab draws --------------------------------------
\* the query draw_entity is instantiated with
Shown == IF show_editor_entities THEN exists ELSE exists \cap prefab

RECURSIVE DrawnFrom(_, _)
DrawnFrom(frontier, seen) ==
    IF frontier = {} THEN seen
    ELSE LET nxt == (UNION {Range(children[x]) : x \in frontier}
                        \cap Shown) \ seen
         IN DrawnFrom(nxt, seen \cup nxt)

Roots == {e \in Shown : parent[e] = NoEntity}

Drawn == DrawnFrom(Roots, Roots)

\* ---- initial scenes ----------------------------------------------------
NoParent == [x \in Ids |-> NoEntity]
NoChildren == [x \in Ids |-> <<>>]

EmptyScene ==
    [exists |-> {}, parent |-> NoParent, children |-> NoChildren,
     prefab |-> {}, n |-> 0, ticks |-> MaxTicks]

\* root 1 with children 2 and 3, 2 with child 4, all editable
TreeScene ==
    [exists |-> {1, 2, 3, 4},
     parent |-> [NoParent EXCEPT ![2] = 1, ![3] = 1, ![4] = 2],
     children |-> [NoChildren EXCEPT ![1] = <<2, 3>>, ![2] = <<4>>],
     prefab |-> {1, 2, 3, 4}, n |-> 4, ticks |-> MaxTreeTicks]

\* editable root 1, its child 2 without PrefabMarker, 2's editable child 3
MixedScene ==
    [exists |-> {1, 2, 3},
     parent |-> [NoParent EXCEPT ![2] = 1, ![3] = 2],
     children |-> [NoChildren EXCEPT ![1] = <<2>>, ![2] = <<3>>],
     prefab |-> {1, 3}, n |-> 3, ticks |-> MaxTicks]

\* editable root 1 with editable children 2 and 3
TrioScene ==
    [exists |-> {1, 2, 3},
     parent |-> [NoParent EXCEPT ![2] = 1, ![3] = 1],
     children |-> [NoChildren EXCEPT ![1] = <<2, 3>>],
     prefab |-> {1, 2, 3}, n |-> 3, ticks |-> MaxTicks]

Scenes == {EmptyScene, TrioScene, TreeScene, MixedScene}

\* the scenes in which every entity is editable
EditableScenes == {EmptyScene, TrioScene, TreeScene}

\* the scene that is run with another system writing CloneEvents
ExtScenes == {[TrioScene EXCEPT !.ticks = MaxExtTicks]}

NoOp == [op |-> "None", e |-> NoEntity, shift |-> FALSE]

InitFrom(scenes) ==
    \E s \in scenes :
        /\ exists = s.exists
        /\ parent = s.parent
        /\ children = s.children
        /\ prefab = s.prefab
        /\ selected = {}
        /\ cloned = {}
        /\ reserved = {}
        /\ nextId = s.n + 1
        /\ show_editor_entities = FALSE
        /\ commands = <<>>
        /\ changes = <<>>
        /\ events = <<>>
        /\ queue = <<>>
        /\ map = NoMap
        /\ pc = "ui"
        /\ ticksLeft = s.ticks
        /\ lastOp = NoOp
        /\ tickStartId = s.n + 1
        /\ destroyed = {}
        /\ pruned = {}
        /\ selectedBefore = {}
        /\ clones = <<>>

Init == InitFrom(Scenes)

\* ---- show_hierarchy ----------------------------------------------------
\* One pass of the tab with the interaction `op`: the commands cs are
\* queued, the records rs and the clone events evs are written, k entity
\* ids are reserved.
UiPass(op, cs, rs, evs, k) ==
    /\ pc = "ui"
    /\ ticksLeft > 0
    /\ nextId + k - 1 <= MaxEntities
    /\ pc' = "ui_flush"
    /\ ticksLeft' = ticksLeft - 1
    /\ lastOp' = op
    /\ commands' = cs
    /\ changes' = changes \o rs
    /\ events' = events \o evs
    /\ reserved' = nextId .. (nextId + k - 1)
    /\ nextId' = nextId + k
    /\ selectedBefore' = selected
    /\ UNCHANGED <<exists, parent, children, prefab, selected, cloned,
                   queue, map, tickStartId, destroyed, pruned, clones>>

Idle ==
    /\ UiPass(NoOp, <<>>, <<>>, <<>>, 0)
    /\ UNCHANGED show_editor_entities

ToggleShowEditorEntities ==
    /\ UiPass([op |-> "ShowEditorEntities", e |-> NoEntity, shift |-> FALSE],
              <<>>, <<>>, <<>>, 0)
    /\ show_editor_entities' = ~show_editor_entities

AddNewEntity ==
    /\ UiPass([op |-> "AddNewEntity", e |-> NoEntity, shift |-> FALSE],
              <<InsertPrefab(nextId)>>, <<AddedEntity(nextId)>>, <<>>, 1)
    /\ UNCHANGED show_editor_entities

\* query.iter() order is unspecified; the despawns commute, so the editable
\* entities are taken in ascending order.
ClearAllCommands(es) == [i \in 1..Len(es) |-> DespawnRecursive(es[i])]
ClearAllRecords(es) == [i \in 1..Len(es) |-> RemovedEntity(es[i])]

ClearAllEntities ==
    LET es == SortedSeq(exists \cap prefab)
    IN /\ UiPass([op |-> "ClearAll", e |-> NoEntity, shift |-> FALSE],
                 ClearAllCommands(es), ClearAllRecords(es), <<>>, 0)
       /\ UNCHANGED show_editor_entities

\* EditorBundleUntyped::spawn: one new editable root
SpawnBundle ==
    /\ UiPass([op |-> "SpawnBundle", e |-> NoEntity, shift |-> FALSE],
              <<InsertPrefab(nextId)>>, <<AddedEntity(nextId)>>, <<>>, 1)
    /\ UNCHANGED show_editor_entities

\* a click that clears the other selections before flipping, selected or not
ClickCommandsClearFirst(e, shift) ==
    (IF ~shift
     THEN LET ss == SortedSeq(selected \ {e})
          IN [i \in 1..Len(ss) |-> RemoveSelected(ss[i])]
     ELSE <<>>)
    \o (IF e \notin selected THEN <<InsertSelected(e)>>
        ELSE <<RemoveSelected(e)>>)

\* a click that never looks at the shift modifier
ClickCommandsNoShift(e, shift) ==
    IF e \notin selected
    THEN LET ss == SortedSeq(selected)
         IN [i \in 1..Len(ss) |-> RemoveSelected(ss[i])] \o <<InsertSelected(e)>>
    ELSE <<RemoveSelected(e)>>

\* label.clicked() in draw_entity
ClickCommands(e, shift) ==
    IF e \notin selected
    THEN (IF ~shift
          THEN LET ss == SortedSeq(selected)
               IN [i \in 1..Len(ss) |-> RemoveSelected(ss[i])]
          ELSE <<>>) \o <<InsertSelected(e)>>
    ELSE <<RemoveSelected(e)>>

Click(e, shift) ==
    /\ e \in Drawn
    /\ UiPass([op |-> "Click", e |-> e, shift |-> shift],
              ClickCommands(e, shift), <<>>, <<>>, 0)
    /\ UNCHANGED show_editor_entities

\* ---- hierarchy_entity_context -----------------------------------------
AddChildCommands(e, new) == <<InsertPrefab(new), AddChildCmd(e, new)>>
AddChildRecords(e, new) == <<AddedEntity(new)>>

AddChild(e) ==
    /\ e \in Drawn
    /\ UiPass([op |-> "AddChild", e |-> e, shift |-> FALSE],
              AddChildCommands(e, nextId), AddChildRecords(e, nextId), <<>>, 1)
    /\ UNCHANGED show_editor_entities

DeleteCommands(e) == <<DespawnRecursive(e)>>
DeleteRecords(e) == <<RemovedEntity(e)>>

Delete(e) ==
    /\ e \in Drawn
    /\ UiPass([op |-> "Delete", e |-> e, shift |-> FALSE],
              DeleteCommands(e), DeleteRecords(e), <<>>, 0)
    /\ UNCHANGED show_editor_entities

Clone(e) ==
    /\ e \in Drawn
    /\ Len(events) < MaxEvents
    /\ UiPass([op |-> "Clone", e |-> e, shift |-> FALSE],
              <<>>, <<>>, <<e>>, 0)
    /\ UNCHANGED show_editor_entities

AttachToCommands(e, ss) == [i \in 1..Len(ss) |-> AddChildCmd(e, ss[i])]
AttachToRecords(e, ss) == <<>>

AttachTo(e) ==
    /\ e \in Drawn
    /\ selected # {}
    /\ e \notin selected
    /\ \E ss \in Perms(selected) :
          UiPass([op |-> "AttachTo", e |-> e, shift |-> FALSE],
                 AttachToCommands(e, ss), AttachToRecords(e, ss), <<>>, 0)
    /\ UNCHANGED show_editor_entities

\* a detach that writes a change record
DetachRecordsLogged(e) == <<RemovedEntity(e)>>

\* a detach that takes the entity out of the world
DetachCommandsDespawn(e) == <<DespawnRecursive(e)>>

DetachCommands(e) == <<RemoveParentCmd(e)>>
DetachRecords(e) == <<>>

Detach(e) ==
    /\ e \in Drawn
    /\ parent[e] # NoEntity
    /\ UiPass([op |-> "Detach", e |-> e, shift |-> FALSE],
              DetachCommands(e), DetachRecords(e), <<>>, 0)
    /\ UNCHANGED show_editor_entities

\* the tab's command queue is applied
UiFlush ==
    /\ pc = "ui_flush"
    /\ pc' = IF events = <<>> THEN "end" ELSE "clone"
    /\ SetWorld(Flushed)
    /\ destroyed' = DoomedAll([World EXCEPT !.exists = @ \cup reserved],
                              commands)
    /\ pruned' = selected \cap destroyed'
    /\ commands' = <<>>
    /\ reserved' = {}
    /\ UNCHANGED <<nextId, show_editor_entities, changes, events, queue, map,
                   ticksLeft, lastOp, tickStartId, selectedBefore, clones>>

\* ---- clone_enitites ----------------------------------------------------
\* a request read and left in the reader
CloneBeginUnconsumed ==
    /\ pc = "clone"
    /\ queue = <<>>
    /\ events # <<>>
    /\ nextId <= MaxEntities
    /\ Len(clones) < MaxEvents
    /\ queue' = <<<<Head(events), nextId>>>>
    /\ map' = NoMap
    /\ events' = IF clones = <<>> THEN events ELSE Tail(events)
    /\ reserved' = reserved \cup {nextId}
    /\ nextId' = nextId + 1
    /\ clones' = Append(clones, [root |-> Head(events), map |-> NoMap,
                                 dsts |-> {nextId}, done |-> FALSE])
    /\ UNCHANGED <<exists, parent, children, prefab, selected, cloned,
                   show_editor_entities, commands, changes, pc, ticksLeft, lastOp,
                   tickStartId, destroyed, pruned, selectedBefore>>

\* for event in events.read(): the root pair is pushed on an empty stack
CloneBegin ==
    /\ pc = "clone"
    /\ queue = <<>>
    /\ events # <<>>
    /\ nextId <= MaxEntities
    /\ queue' = <<<<Head(events), nextId>>>>
    /\ map' = NoMap
    /\ events' = Tail(events)
    /\ reserved' = reserved \cup {nextId}
    /\ nextId' = nextId + 1
    /\ clones' = Append(clones, [root |-> Head(events), map |-> NoMap,
                                 dsts |-> {nextId}, done |-> FALSE])
    /\ UNCHANGED <<exists, parent, children, prefab, selected, cloned,
                   show_editor_entities, commands, changes, pc, ticksLeft, lastOp,
                   tickStartId, destroyed, pruned, selectedBefore>>

\* EditorRegistry::clone_entity_flat: the registered components of src,
\* PrefabMarker among them, are inserted on dst
clone_entity_flat(src, dst) == <<InsertPrefab(dst)>>

\* every clone attached under the parent of its source
CloneAttachOriginal(m, src, dst) ==
    IF parent[src] = NoEntity THEN <<>>
    ELSE <<AddChildCmd(parent[src], dst)>>

\* the arguments of add_child exchanged
CloneAttachSwapped(m, src, dst) ==
    IF parent[src] = NoEntity THEN <<>>
    ELSE IF parent[src] \in DOMAIN m
         THEN <<AddChildCmd(dst, m[parent[src]])>>
         ELSE <<AddChildCmd(dst, parent[src])>>

\* where the clone of src is attached
CloneAttach(m, src, dst) ==
    IF parent[src] = NoEntity THEN <<>>
    ELSE IF parent[src] \in DOMAIN m
         THEN <<AddChildCmd(m[parent[src]], dst)>>
         ELSE <<AddChildCmd(parent[src], dst)>>

\* the sources whose children are walked
Cloneable(src) == src \in exists /\ src \in prefab

\* the children of every existing source walked, editable or not
ClonePushesAnySource(src) ==
    IF src \in exists
    THEN [i \in 1..Len(children[src]) |-> <<children[src][i], nextId + i - 1>>]
    ELSE <<>>

\* the pairs pushed for the children of src
ClonePushes(src) ==
    IF Cloneable(src)
    THEN [i \in 1..Len(children[src]) |-> <<children[src][i], nextId + i - 1>>]
    ELSE <<>>

\* the commands queued for one popped pair
CloneCommands(m, src, dst) ==
    IF Cloneable(src)
    THEN <<InsertCloned(dst)>> \o clone_entity_flat(src, dst)
         \o CloneAttach(m, src, dst)
    ELSE <<>>

\* a pop that does not record the pair
MapInsertSkipped(m, src, dst) == m

\* map.insert(src_id, dst_id)
MapInsert(m, src, dst) ==
    [x \in DOMAIN m \cup {src} |-> IF x = src THEN dst ELSE m[x]]

\* one iteration of `while let Some((src_id, dst_id)) = queue.pop()`
CloneStep ==
    /\ pc = "clone"
    /\ queue # <<>>
    /\ LET top == queue[Len(queue)]
           src == top[1]
           dst == top[2]
           m == MapInsert(map, src, dst)
           pushes == ClonePushes(src)
           k == Len(pushes)
           q == SubSeq(queue, 1, Len(queue) - 1) \o pushes
           cur == clones[Len(clones)]
       IN /\ nextId + k - 1 <= MaxEntities
          /\ map' = m
          /\ commands' = commands \o CloneCommands(m, src, dst)
          /\ queue' = q
          /\ reserved' = reserved \cup (nextId .. (nextId + k - 1))
          /\ nextId' = nextId + k
          /\ clones' = [clones EXCEPT ![Len(clones)] =
                          [root |-> cur.root, map |-> m,
                           dsts |-> cur.dsts \cup (nextId .. (nextId + k - 1)),
                           done |-> q = <<>>]]
    /\ UNCHANGED <<exists, parent, children, prefab, selected, cloned,
                   show_editor_entities, changes, events, pc, ticksLeft, lastOp,
                   tickStartId, destroyed, pruned, selectedBefore>>

\* the command queue applied while pairs are still on the stack
CloneEndEarly ==
    /\ pc = "clone"
    /\ events = <<>>
    /\ pc' = "detect"
    /\ SetWorld(Flushed)
    /\ commands' = <<>>
    /\ reserved' = {}
    /\ map' = NoMap
    /\ UNCHANGED <<nextId, show_editor_entities, changes, events, queue,
                   ticksLeft, lastOp, tickStartId, destroyed, pruned,
                   selectedBefore, clones>>

\* events.clear(), the system returns and its command queue is applied
CloneEnd ==
    /\ pc = "clone"
    /\ queue = <<>>
    /\ events = <<>>
    /\ pc' = "detect"
    /\ SetWorld(Flushed)
    /\ commands' = <<>>
    /\ reserved' = {}
    /\ map' = NoMap
    /\ UNCHANGED <<nextId, show_editor_entities, changes, events, queue,
                   ticksLeft, lastOp, tickStartId, destroyed, pruned,
                   selectedBefore, clones>>

\* ---- detect_cloned_entities -------------------------------------------
\* Added<ClonedEntity> is iterated in table order, which no code fixes
DetectRecords(es) == [i \in 1..Len(es) |-> AddedEntity(es[i])]

DetectClonedEntities ==
    /\ pc = "detect"
    /\ pc' = "end"
    /\ \E es \in Perms(cloned) : changes' = changes \o DetectRecords(es)
    /\ cloned' = {}
    /\ UNCHANGED <<exists, parent, children, prefab, selected, reserved,
                   nextId, show_editor_entities, commands, events, queue, map,
                   ticksLeft, lastOp, tickStartId, destroyed, pruned,
                   selectedBefore, clones>>

\* UndoSet::PerType, ordered after detect_cloned_entities, takes the
\* NewChange events of the tick; the next tick starts
EndTick ==
    /\ pc = "end"
    /\ pc' = "ui"
    /\ changes' = <<>>
    /\ lastOp' = NoOp
    /\ tickStartId' = nextId
    /\ destroyed' = {}
    /\ pruned' = {}
    /\ selectedBefore' = {}
    /\ clones' = <<>>
    /\ UNCHANGED <<exists, parent, children, prefab, selected, cloned,
                   reserved, nextId, show_editor_entities, commands, events,
                   queue, map, ticksLeft>>

\* ---- specification -----------------------------------------------------
Next ==
    \/ Idle
    \/ ToggleShowEditorEntities
    \/ AddNewEntity
    \/ ClearAllEntities
    \/ SpawnBundle
    \/ \E e \in Ids, shift \in BOOLEAN : Click(e, shift)
    \/ \E e \in Ids : AddChild(e)
    \/ \E e \in Ids : Delete(e)
    \/ \E e \in Ids : Clone(e)
    \/ \E e \in Ids : AttachTo(e)
    \/ \E e \in Ids : Detach(e)
    \/ UiFlush
    \/ CloneBegin
    \/ CloneStep
    \/ CloneEnd
    \/ DetectClonedEntities
    \/ EndTick

Spec == Init /\ [][Next]_vars

\* the same program started from scenes without non-editable entities
SpecEditable == InitFrom(EditableScenes) /\ [][Next]_vars

\* CloneEvent is a public event: another system writes one before the tab
\* pass of a tick
SendCloneEvent(e) ==
    /\ pc = "ui"
    /\ ticksLeft > 0
    /\ events = <<>>
    /\ e \in exists
    /\ events' = <<e>>
    /\ UNCHANGED <<exists, parent, children, prefab, selected, cloned,
                   reserved, nextId, show_editor_entities, commands, changes,
                   queue, map, pc, ticksLeft, lastOp, tickStartId, destroyed,
                   pruned, selectedBefore, clones>>

NextExt ==
    \/ Next
    \/ \E e \in Ids : SendCloneEvent(e)

SpecExt == InitFrom(ExtScenes) /\ [][NextExt]_vars

\* ---- properties --------------------------------------------------------
GraphUnchanged ==
    /\ exists' = exists
    /\ parent' = parent
    /\ children' = children

CountRecord(r) == Cardinality({i \in DOMAIN changes : changes[i] = r})

CountKind(k) == Cardinality({i \in DOMAIN changes : changes[i].kind = k})

\* the clone commands of the tick have been applied
ClonesApplied == pc \in {"detect", "end"}

\* the source subtree of a clone operation
SourceOf(c) == IF c.root \in exists THEN Subtree(children, c.root) ELSE {}

\* f maps the source subtree of c onto its destinations, edge for edge
IsoBy(f, S, c) ==
    /\ {f[x] : x \in S} = c.dsts
    /\ \A x \in S :
         /\ parent[f[x]] = IF x = c.root THEN parent[c.root] ELSE f[parent[x]]
         /\ Range(children[f[x]]) = {f[y] : y \in Range(children[x])}
         /\ Len(children[f[x]]) = Len(children[x])
    /\ parent[c.root] # NoEntity
         => f[c.root] \in Range(children[parent[c.root]])

CloneIsomorphic(c) ==
    LET S == SourceOf(c)
    IN /\ Cardinality(c.dsts) = Cardinality(S)
       /\ c.dsts \subseteq exists
       /\ \A d \in c.dsts : d >= tickStartId
       /\ \E f \in [S -> c.dsts] : IsoBy(f, S, c)

\* C1 (as claimed): every finished clone of a subtree of N entities, editable
\* or not, has produced exactly N new entities in the shape of the source,
\* the new root under the source root's parent (or parentless like it).
C1CloneTopologyAnyMix ==
    ClonesApplied =>
        \A i \in DOMAIN clones :
            clones[i].done => CloneIsomorphic(clones[i])

\* C1 (amended): every finished clone of an existing subtree whose N
\* entities all carry PrefabMarker has produced exactly N new entities in
\* the shape of the source, the new root under the source root's parent
\* (or parentless like it).
C1CloneTopologyEditable ==
    ClonesApplied =>
        \A i \in DOMAIN clones :
            (/\ clones[i].done
             /\ clones[i].root \in exists
             /\ SourceOf(clones[i]) \subseteq prefab)
            => CloneIsomorphic(clones[i])

\* a root with two children, one of which has a child, has been cloned
C1Witness ==
    /\ pc = "detect"
    /\ Len(clones) = 1
    /\ clones[1].done
    /\ parent[clones[1].root] = NoEntity
    /\ Len(children[clones[1].root]) = 2
    /\ Cardinality(SourceOf(clones[1])) = 4
    /\ SourceOf(clones[1]) \subseteq prefab
    /\ Cardinality(clones[1].dsts) = 4

\* C2: once the Delete of R is applied nothing of R's subtree exists and
\* the tick's log holds one EntityRemoved record for each destroyed entity,
\* |{R} \cup D| in all.
C2CascadeRecords ==
    (lastOp.op = "Delete" /\ pc # "ui_flush") =>
        /\ destroyed \cap exists = {}
        /\ lastOp.e \in destroyed
        /\ CountKind("EntityRemoved") = Cardinality(destroyed)
        /\ \A d \in destroyed : CountRecord(RemovedEntity(d)) = 1

\* C3: no entity is its own ancestor.
C3Acyclic == \A e \in exists : e \notin Ancestors(parent, e)

\* C4: an attach-to whose selection holds an ancestor of the clicked entity
\* changes no parent link and no child list.
C4CycleRejected ==
    [][(/\ pc = "ui_flush"
        /\ lastOp.op = "AttachTo"
        /\ selected \cap Ancestors(parent, lastOp.e) # {})
       => GraphUnchanged]_vars

\* C5: at the end of a tick every entity that exists and did not exist at
\* the start of the tick has exactly one EntityAdded record in the tick's
\* log.
C5AddedPairing ==
    pc = "end" =>
        \A e \in exists :
            e >= tickStartId => CountRecord(AddedEntity(e)) = 1

\* C6: only existing entities are selected.
C6SelectionConsistent == selected \subseteq exists

\* a selected descendant went down with a deleted ancestor
C6Witness ==
    /\ pc = "end"
    /\ lastOp.op = "Delete"
    /\ \E s \in pruned : s # lastOp.e

\* C7 (as claimed): a click without shift leaves no entity other than the
\* clicked one selected and flips the clicked one.
C7ExclusiveToggle ==
    [][(pc = "ui_flush" /\ lastOp.op = "Click" /\ ~lastOp.shift)
       => /\ selected' \subseteq {lastOp.e}
          /\ lastOp.e \in selected' <=> lastOp.e \notin selected]_vars

\* C7 (amended): a click without shift on an unselected entity leaves
\* exactly that entity selected; on a selected entity it removes that
\* entity from the selection and keeps the others.
C7ClickNoShift ==
    [][(pc = "ui_flush" /\ lastOp.op = "Click" /\ ~lastOp.shift)
       => selected' = IF lastOp.e \notin selected THEN {lastOp.e}
                      ELSE selected \ {lastOp.e}]_vars

\* a selected entity was clicked without shift and others stayed selected
C7Witness ==
    /\ pc = "end"
    /\ lastOp.op = "Click"
    /\ ~lastOp.shift
    /\ lastOp.e \in selectedBefore
    /\ selected = selectedBefore \ {lastOp.e}
    /\ selected # {}

\* C8: a click on an unselected entity E turns the selection S into
\* S \cup {E} with shift and into {E} without.
C8SelectUnselected ==
    [][(pc = "ui_flush" /\ lastOp.op = "Click" /\ lastOp.e \notin selected)
       => selected' = IF lastOp.shift THEN selected \cup {lastOp.e}
                      ELSE {lastOp.e}]_vars

\* with two entities selected (the second one added with shift), a third
\* one was clicked without shift and is now the only one selected
C8Witness ==
    /\ pc = "end"
    /\ lastOp.op = "Click"
    /\ ~lastOp.shift
    /\ Cardinality(selectedBefore) = 2
    /\ lastOp.e \notin selectedBefore
    /\ selected = {lastOp.e}

\* C9: every record in the log describes a mutation the world already
\* shows: an added entity exists, a removed entity does not.
C9EmitAfterMutation ==
    \A i \in DOMAIN changes :
        /\ changes[i].kind = "EntityAdded" => changes[i].entity \in exists
        /\ changes[i].kind = "EntityRemoved" => changes[i].entity \notin exists

\* C10: the tab pass and the command flush of a click, an attach-to or a
\* detach write no change record, and those of a click leave existence,
\* parent links and child lists alone.
C10NoRecord ==
    [][/\ (pc = "ui" /\ lastOp'.op \in {"Click", "AttachTo", "Detach"})
          => changes' = changes
       /\ (pc = "ui_flush" /\ lastOp.op \in {"Click", "AttachTo", "Detach"})
          => changes' = changes
       /\ (pc = "ui" /\ lastOp'.op = "Click") => GraphUnchanged
       /\ (pc = "ui_flush" /\ lastOp.op = "Click") => GraphUnchanged]_vars

\* a detach has been applied and the log is empty
C10Witness ==
    /\ pc = "end"
    /\ lastOp.op = "Detach"
    /\ parent[lastOp.e] = NoEntity
    /\ changes = <<>>

\* the places in the log of the EntityAdded records of the destinations of c
AddedPlaces(c) ==
    {k \in DOMAIN changes : /\ changes[k].kind = "EntityAdded"
                            /\ changes[k].entity \in c.dsts}

\* C11: the EntityAdded records of the entities of one clone operation are
\* written once that operation is finished and applied, and they stand side
\* by side in the log: no record of another clone operation lies between
\* two of them.
C11ContiguousBlocks ==
    \A i \in DOMAIN clones :
        LET I == AddedPlaces(clones[i])
        IN /\ I # {} => (clones[i].done /\ ClonesApplied)
           /\ \A a \in I : \A b \in I : \A k \in a..b : k \in I

\* the parent the clone of src is to end up with
FinalParent(c, src) ==
    IF src = c.root THEN parent[src] ELSE c.map[parent[src]]

\* every destination of c exists and the clone of every editable source
\* hangs where it is to stay
FullyVisible(c) ==
    /\ c.done
    /\ c.dsts \subseteq exists
    /\ \A src \in DOMAIN c.map :
         Cloneable(src) =>
            /\ parent[c.map[src]] = FinalParent(c, src)
            /\ FinalParent(c, src) # NoEntity
                 => c.map[src] \in Range(children[FinalParent(c, src)])

\* C12: of every clone request of the tick either no destination entity
\* exists or all of them exist with their final parent links; between two
\* ticks no clone is under way and every clone of the ending tick is
\* complete.
C12NeverPartial ==
    /\ \A i \in DOMAIN clones :
         clones[i].dsts \cap exists = {} \/ FullyVisible(clones[i])
    /\ pc = "end" => \A i \in DOMAIN clones : FullyVisible(clones[i])
    /\ pc \in {"ui", "end"} =>
         queue = <<>> /\ events = <<>> /\ reserved = {} /\ commands = <<>>

\* a tick ends after the clone of a root with two children
C12Witness ==
    /\ pc = "end"
    /\ Len(clones) = 1
    /\ Cardinality(clones[1].dsts) = 3
    /\ clones[1].dsts \subseteq exists
    /\ \E src \in DOMAIN clones[1].map :
         /\ src # clones[1].root
         /\ parent[clones[1].map[src]] = clones[1].map[clones[1].root]

\* parent links and child lists agree on d and d is not its own ancestor
WellFormedAt(d) ==
    /\ d \in exists
    /\ parent[d] # NoEntity => d \in Range(children[parent[d]])
    /\ \A x \in Range(children[d]) : parent[x] = d
    /\ d \notin Ancestors(parent, d)

\* C13: every clone operation drains its work stack: no pair on the stack
\* names a source the operation has popped before (the entity graph does
\* not change while the loop runs, so such a pair starts the same walk
\* again, without end), and the destinations of every finished clone are
\* well-formed.
C13RunsToCompletion ==
    /\ pc = "clone" => \A k \in DOMAIN queue : queue[k][1] \notin DOMAIN map
    /\ ClonesApplied =>
         \A i \in DOMAIN clones : \A d \in clones[i].dsts : WellFormedAt(d)

\* the sources without PrefabMarker that the clone operation c has popped
NonEditableSources(c) == {src \in DOMAIN c.map : src \in exists \ prefab}

\* the destination of src is an empty entity outside the hierarchy
Placeholder(d) ==
    /\ d \in exists
    /\ d \notin prefab
    /\ d \notin cloned
    /\ parent[d] = NoEntity
    /\ children[d] = <<>>

\* C14 (as claimed): for a source without PrefabMarker a finished clone has
\* kept a placeholder destination without copied components, and every
\* child of that source has received a destination entity.
C14WalksChildren ==
    ClonesApplied =>
        \A i \in DOMAIN clones :
            \A src \in NonEditableSources(clones[i]) :
                /\ Placeholder(clones[i].map[src])
                /\ \A ch \in Range(children[src]) : ch \in DOMAIN clones[i].map

\* C14 (amended): for a source without PrefabMarker a finished clone has
\* kept a placeholder destination without copied components, and no child
\* of that source has received a destination entity.
C14SkipsChildren ==
    ClonesApplied =>
        \A i \in DOMAIN clones :
            \A src \in NonEditableSources(clones[i]) :
                /\ Placeholder(clones[i].map[src])
                /\ \A ch \in Range(children[src]) :
                     ch \notin DOMAIN clones[i].map

\* an editable root was cloned whose non-editable child has a child
C14Witness ==
    /\ pc = "end"
    /\ Len(clones) = 1
    /\ clones[1].done
    /\ clones[1].root \in prefab
    /\ \E src \in NonEditableSources(clones[1]) :
         /\ parent[src] = clones[1].root
         /\ children[src] # <<>>
         /\ clones[1].map[src] \in exists

\* the destination reserved for the root of the clone operation c
RootDst(c) == CHOOSE d \in c.dsts : \A x \in c.dsts : d <= x

C16ConsumedOnce ==
    [][/\ Len(events') < Len(events)
          => /\ events' = Tail(events)
             /\ Len(clones') = Len(clones) + 1
             /\ clones'[Len(clones')].root = Head(events)
       /\ Len(clones') > Len(clones)
          => /\ Len(clones') = Len(clones) + 1
             /\ events' = Tail(events)
             /\ SubSeq(clones', 1, Len(clones)) = clones
       /\ pc' \in {"detect", "end"} /\ pc \notin {"detect", "end"}
          => /\ events' = <<>>
             /\ Len(clones') = Len(events) + Len(clones)
             /\ lastOp.op = "Clone"
                 => \E i \in DOMAIN clones' : clones'[i].root = lastOp.e]_vars

\* the request of a Clone click has been turned into one clone operation
C16Witness ==
    /\ pc = "end"
    /\ lastOp.op = "Clone"
    /\ events = <<>>
    /\ Len(clones) = 1
    /\ clones[1].root = lastOp.e
    /\ clones[1].done

\* C17: Detach is picked only on an entity that has a parent; applying it
\* destroys no entity, clears the parent link of the entity, takes the
\* entity out of the child list of its former parent and changes no other
\* parent link or child list, so the entity keeps its descendants; markers
\* and selection stay as they are.
C17DetachOnlyUnlinks ==
    [][/\ (pc = "ui" /\ lastOp'.op = "Detach")
          => /\ lastOp'.e \in exists
             /\ parent[lastOp'.e] # NoEntity
             /\ GraphUnchanged
       /\ (pc = "ui_flush" /\ lastOp.op = "Detach")
          => /\ exists' = exists
             /\ parent' = [parent EXCEPT ![lastOp.e] = NoEntity]
             /\ children' = [children EXCEPT ![parent[lastOp.e]] =
                                Without(@, lastOp.e)]
             /\ lastOp.e \notin Range(children'[parent[lastOp.e]])
             /\ Subtree(children', lastOp.e) = Subtree(children, lastOp.e)
             /\ prefab' = prefab
             /\ selected' = selected]_vars

\* an entity with a child of its own was detached and is a root with that
\* child
C17Witness ==
    /\ pc = "end"
    /\ lastOp.op = "Detach"
    /\ lastOp.e \in exists
    /\ parent[lastOp.e] = NoEntity
    /\ children[lastOp.e] # <<>>
    /\ \A x \in Range(children[lastOp.e]) : parent[x] = lastOp.e

\* C18: once "Clear all entities" is applied no entity with PrefabMarker
\* exists, and the tick's log holds exactly one EntityRemoved record for
\* each entity the operation destroyed, cascaded descendants included.
C18ClearAllRecords ==
    (lastOp.op = "ClearAll" /\ pc # "ui_flush") =>
        /\ exists \cap prefab = {}
        /\ destroyed \cap exists = {}
        /\ CountKind("EntityRemoved") = Cardinality(destroyed)
        /\ \A d \in destroyed : CountRecord(RemovedEntity(d)) = 1

\* the step that applies the commands of the tick's only clone operation
\* leaves every entity that existed before in place, with its markers, its
\* parent and its children, but for the one child list in gains
SourceSideKept(gains) ==
    /\ exists \subseteq exists'
    /\ prefab' \cap exists = prefab \cap exists
    /\ selected' = selected
    /\ \A e \in exists :
         /\ parent'[e] = parent[e]
         /\ children'[e] = IF e \in gains
                           THEN Append(children[e], RootDst(clones[1]))
                           ELSE children[e]

\* the loop of a clone operation changes nothing in the world
CloneLoopFrame ==
    (pc = "clone" /\ pc' = "clone")
    => GraphUnchanged /\ prefab' = prefab /\ selected' = selected

\* C19 (as claimed): a clone operation keeps every entity that existed
\* before with the same parent and the same children, but for the parent of
\* the cloned root, which gains the clone root as one new child; the
\* selection is unchanged.
C19SourceUnchanged ==
    [][/\ CloneLoopFrame
       /\ (pc = "clone" /\ pc' = "detect" /\ Len(clones) = 1)
          => SourceSideKept({parent[clones[1].root]} \cap exists)]_vars

\* C19 (amended): the same, the parent of the cloned root gaining the new
\* child only when the cloned root carries PrefabMarker; a cloned root
\* without it leaves its parent's child list as it was.
C19SourceUnchangedEditable ==
    [][/\ CloneLoopFrame
       /\ (pc = "clone" /\ pc' = "detect" /\ Len(clones) = 1)
          => SourceSideKept(IF Cloneable(clones[1].root)
                            THEN {parent[clones[1].root]} \cap exists
                            ELSE {})]_vars

\* an editable child was cloned while an entity was selected; its parent
\* has the clone as its last child
C19Witness ==
    /\ pc = "detect"
    /\ Len(clones) = 1
    /\ Cloneable(clones[1].root)
    /\ parent[clones[1].root] # NoEntity
    /\ selected # {}
    /\ LET ch == children[parent[clones[1].root]]
       IN /\ Len(ch) >= 2
          /\ ch[Len(ch)] = RootDst(clones[1])
          /\ clones[1].root \in Range(ch)

\* the roots the traversal of the tab starts from: editable, no parent
EditableRoots == {e \in exists \cap prefab : parent[e] = NoEntity}

\* C20: every existing entity with PrefabMarker is reached from a
\* parentless entity with PrefabMarker by following child lists.
C20EditableReachable ==
    \A e \in exists \cap prefab :
        \E r \in EditableRoots : e \in Subtree(children, r)

====
